---- MODULE Spec2Model ----
(***************************************************************************)
(* A model of the FIX tag/value codec: Decoder (decoder.rs), Message       *)
(* (message.rs), the repeating-group engine (group.rs) and Encoder         *)
(* (encoder.rs).  Bytes are the integers 0..255; buffers are sequences of  *)
(* bytes.  Offsets into a buffer are 0-based as in the source, so          *)
(* buf[i] of the source is buf[i + 1] here.                                *)
(***************************************************************************)
EXTENDS Integers, Sequences, FiniteSets, TLC

VARIABLES
    buf,        \* the caller's buffer handed to the last Decoder::decode
    offsets,    \* Decoder.offsets: the reusable (tag, start, end) table
    res,        \* outcome of the last decode: "none", "ok" or the FixError
    sorted,     \* Message.sorted: the OnceCell holding the lookup index
    sorts,      \* how many times the get_or_init closure ran for this Message
    ret,        \* the operation the caller ran last and what it returned
    body,       \* Encoder.body: the reusable scratch buffer
    disable_auto_calculate_body_length,   \* Encoder switch
    disable_auto_calculate_checksum,      \* Encoder switch
    out,        \* the caller's output Vec<u8> handed to Encoder::encode
    iter,       \* the GroupIter the caller holds, if any
    leftover,   \* whether the table still held entries when decode was entered
    group       \* the Group whose groups() gave iter, if iter is a nested one

vars == <<buf, offsets, res, sorted, sorts, ret, body,
          disable_auto_calculate_body_length,
          disable_auto_calculate_checksum, out, iter, leftover, group>>

(***************************************************************************)
(* Bytes                                                                   *)
(***************************************************************************)
FIELD_SEPARATOR == 1
FIELD_KEY_VALUE_SEPARATOR == 61
\* ASCII codes used to write the inputs
ChPlus == 43
Ch0 == 48
Ch9 == 57
ChX == 88

IsDigit(b) == b >= Ch0 /\ b <= Ch9

\* The integer types of the source are wider than the model checker's
\* integers, so a u32 or usize is a sequence of 16-bit limbs, most significant
\* first: two limbs for u32, four for usize.
LimbBase == 65536
U32Limbs == 2
UsizeLimbs == 4
U16Mod == 65536
AsU16(n) == n % U16Mod
\* usize -> u32 of a buffer position: value-preserving below 2^32, and every
\* buffer of the model is shorter than that
AsU32(n) == n

\* a small natural as a k-limb integer
RECURSIVE Wide(_, _)
Wide(k, n) ==
    IF k = 0 THEN <<>>
    ELSE Append(Wide(k - 1, n \div LimbBase), n % LimbBase)

U32Mut(n) == Wide(U32Limbs + 1, n)
U32(n) == Wide(U32Limbs, n)
Usize(n) == Wide(UsizeLimbs, n)

WIsZero(w) == \A i \in 1..Len(w) : w[i] = 0

\* w * 10 + c, with the carry out of the most significant limb
RECURSIVE WMulAdd10(_, _)
WMulAdd10(w, c) ==
    IF w = <<>> THEN [carry |-> c, val |-> <<>>]
    ELSE LET t == w[Len(w)] * 10 + c
             r == WMulAdd10(SubSeq(w, 1, Len(w) - 1), t \div LimbBase)
         IN [carry |-> r.carry, val |-> Append(r.val, t % LimbBase)]

\* quotient and remainder of (rem * LimbBase^Len(w) + w) by 10
RECURSIVE WDivMod10(_, _)
WDivMod10(w, rem) ==
    IF w = <<>> THEN [q |-> <<>>, r |-> rem]
    ELSE LET cur == rem * LimbBase + w[1]
             rest == WDivMod10(Tail(w), cur % 10)
         IN [q |-> <<cur \div 10>> \o rest.q, r |-> rest.r]

\* unsigned comparison
RECURSIVE WLess(_, _)
WLess(a, b) ==
    IF a = <<>> THEN FALSE
    ELSE IF a[1] # b[1] THEN a[1] < b[1]
    ELSE WLess(Tail(a), Tail(b))

\* a - b for a >= b, limb by limb with the borrow
RECURSIVE WSub(_, _, _)
WSub(a, b, borrow) ==
    IF a = <<>> THEN <<>>
    ELSE LET t == a[Len(a)] - b[Len(b)] - borrow IN
         Append(WSub(SubSeq(a, 1, Len(a) - 1), SubSeq(b, 1, Len(b) - 1),
                     IF t < 0 THEN 1 ELSE 0),
                (t + LimbBase) % LimbBase)

\* usize::saturating_sub
WSaturatingSub(a, b) == IF WLess(a, b) THEN Usize(0) ELSE WSub(a, b, 0)

\* the sequences over S of length at most n
RECURSIVE SeqsUpTo(_, _)
SeqsUpTo(S, n) ==
    IF n = 0 THEN {<<>>}
    ELSE LET shorter == SeqsUpTo(S, n - 1) IN
         shorter \cup {Append(s, x) : s \in {t \in shorter : Len(t) = n - 1}, x \in S}

\* &b[s..e] for 0-based s, e
Slice(b, s, e) == SubSeq(b, s + 1, e)

\* absent Option values
None == -1

\* memchr(c, &b[from..]) + from, or None
RECURSIVE memchr(_, _, _)
memchr(c, b, from) ==
    IF from >= Len(b) THEN None
    ELSE IF b[from + 1] = c THEN from
    ELSE memchr(c, b, from + 1)

AllDigits(bs) == \A i \in 1..Len(bs) : IsDigit(bs[i])

\* checked parse of a run of decimal digits into k limbs: None on overflow
RECURSIVE ParseChecked(_, _)
ParseChecked(acc, ds) ==
    IF ds = <<>> THEN [ok |-> TRUE, val |-> acc]
    ELSE LET r == WMulAdd10(acc, ds[1] - Ch0) IN
         IF r.carry > 0 THEN [ok |-> FALSE, val |-> acc]
         ELSE ParseChecked(r.val, Tail(ds))

\* u32::to_string / usize::to_string: canonical decimal, no leading zeros
RECURSIVE to_string(_)
to_string(w) ==
    LET d == WDivMod10(w, 0) IN
    IF WIsZero(d.q) THEN <<Ch0 + d.r>>
    ELSE Append(to_string(d.q), Ch0 + d.r)

(***************************************************************************)
(* tag.rs (not part of the given sources): parse_tag accepts a non-empty   *)
(* run of decimal digits whose value fits in 32 bits.                      *)
(***************************************************************************)
parse_tag(bs) ==
    IF bs = <<>> \/ ~AllDigits(bs) THEN [ok |-> FALSE, tag |-> U32(0)]
    ELSE LET r == ParseChecked(U32(0), bs) IN
         [ok |-> r.ok, tag |-> r.val]

\* one field on the wire: tag text, '=', value, terminator
WireField(t, v) ==
    t \o <<FIELD_KEY_VALUE_SEPARATOR>> \o v \o <<FIELD_SEPARATOR>>

RECURSIVE Wire(_)
Wire(fs) ==
    IF fs = <<>> THEN <<>>
    ELSE WireField(fs[1][1], fs[1][2]) \o Wire(Tail(fs))

BEGIN_STRING == U32(8)
BODY_LENGTH == U32(9)
CHECK_SUM == U32(10)

(***************************************************************************)
(* Decoder::decode                                                         *)
(***************************************************************************)
\* SmallVec::clear: the length is reset, the storage is kept
ClearMut(tab) == tab
Clear(tab) == <<>>

\* where the value of a field begins, given the position of its '='
ValueStartMut(eq_pos) == eq_pos + 2
ValueStart(eq_pos) == eq_pos + 1

\* the error of a delimiter search that ran off the end of the buffer
DelimiterMissingMut == "InvalidTag"
DelimiterMissing == "IncompleteMessage"

\* where the search for the terminator starts, given the position of '='
SohSearchFromMut(pos, eq_pos) == eq_pos + 2
SohSearchFrom(pos, eq_pos) == eq_pos + 1

\* where the next field begins, given the position of the terminator
NextFieldStartMut(soh_pos) == soh_pos
NextFieldStart(soh_pos) == soh_pos + 1

\* the while loop of decode: the table so far, the buffer, the position
RECURSIVE DecodeLoop(_, _, _)
DecodeLoop(tab, b, pos) ==
    IF pos >= Len(b) THEN [res |-> "ok", offsets |-> tab]
    ELSE
      LET eq_pos == memchr(FIELD_KEY_VALUE_SEPARATOR, b, pos) IN
      IF eq_pos = None THEN [res |-> DelimiterMissing, offsets |-> tab]
      ELSE
        LET tg == parse_tag(Slice(b, pos, eq_pos)) IN
        IF ~tg.ok THEN [res |-> "InvalidTag", offsets |-> tab]
        ELSE
          LET soh_pos == memchr(FIELD_SEPARATOR, b, SohSearchFrom(pos, eq_pos)) IN
          IF soh_pos = None THEN [res |-> DelimiterMissing, offsets |-> tab]
          ELSE DecodeLoop(
                 Append(tab, <<tg.tag, AsU32(ValueStart(eq_pos)), AsU32(soh_pos)>>),
                 b, NextFieldStart(soh_pos))

\* decode on a Decoder whose table currently holds tab
\* decode that gives up on a buffer whose last byte is no terminator
decodeTrailingMut(tab, b) ==
    IF b # <<>> /\ b[Len(b)] # FIELD_SEPARATOR
    THEN [res |-> DelimiterMissing, offsets |-> Clear(tab)]
    ELSE DecodeLoop(Clear(tab), b, 0)
decode(tab, b) == DecodeLoop(Clear(tab), b, 0)

\* a Message exists only while the last decode returned Ok
HasMessage == res = "ok"

\* OnceCell::new()
UnbuiltIndex == [init |-> FALSE, v |-> <<>>]

NoIter == [live |-> FALSE, lo |-> 0, hi |-> 0, delimiter_tag |-> U32(0),
           count |-> Usize(0), emitted |-> 0]

NoGroup == [some |-> FALSE, lo |-> 0, hi |-> 0]

Decode(b) ==
    LET r == decode(offsets, b) IN
    /\ buf' = b
    /\ offsets' = r.offsets
    /\ res' = r.res
    /\ sorted' = UnbuiltIndex
    /\ sorts' = 0
    /\ ret' = [op |-> "decode", val |-> <<>>]
    /\ iter' = NoIter
    /\ leftover' = (offsets # <<>>)
    /\ group' = NoGroup
    /\ UNCHANGED <<body, disable_auto_calculate_body_length,
                   disable_auto_calculate_checksum, out>>

Init ==
    /\ buf = <<>>
    /\ offsets = <<>>
    /\ res = "none"
    /\ sorted = UnbuiltIndex
    /\ sorts = 0
    /\ ret = [op |-> "new", val |-> <<>>]
    /\ body = <<>>
    /\ disable_auto_calculate_body_length = FALSE
    /\ disable_auto_calculate_checksum = FALSE
    /\ out = <<>>
    /\ iter = NoIter
    /\ leftover = FALSE
    /\ group = NoGroup

(***************************************************************************)
(* Message (message.rs): read access, the lazily built lookup index        *)
(***************************************************************************)
\* Field { tag, value } of entry i (0-based) of a table
FieldOf(b, tab, i) ==
    [some |-> TRUE, tag |-> tab[i + 1][1],
     value |-> Slice(b, tab[i + 1][2], tab[i + 1][3])]

NoField == [some |-> FALSE, tag |-> U32(0), value |-> <<>>]

\* the pairs pushed by the closure of get_or_init: (tag, i as u16)
IndexPairs(tab) == [i \in 1..Len(tab) |-> <<tab[i][1], AsU16(i - 1)>>]

RECURSIVE Perms(_)
Perms(S) ==
    IF S = {} THEN {<<>>}
    ELSE UNION {{<<x>> \o q : q \in Perms(S \ {x})} : x \in S}

MinTag(T) == CHOOSE t \in T : \A u \in T : ~WLess(u, t)

\* every arrangement of v in which the tags placed so far precede the tags
\* of T, the tags of T ascend, and equal tags come in any order
RECURSIVE SortedByKey(_, _)
SortedByKey(v, T) ==
    IF T = {} THEN {<<>>}
    ELSE LET mt == MinTag(T)
             pos == {i \in 1..Len(v) : v[i][1] = mt}
         IN {[k \in 1..Len(q) |-> v[q[k]]] \o rest :
                q \in Perms(pos), rest \in SortedByKey(v, T \ {mt})}

\* sort_unstable_by_key(|&(t, _)| t): the result is ordered by tag; the order
\* of entries with equal tags is not specified, so every such order is a
\* possible outcome
\* (when the tags already ascend strictly, v itself is the only such order)
StrictlyAscending(v) == \A i \in 1..(Len(v) - 1) : WLess(v[i][1], v[i + 1][1])

sort_unstable_by_key(v) ==
    IF StrictlyAscending(v) THEN {v}
    ELSE SortedByKey(v, {v[i][1] : i \in 1..Len(v)})

\* OnceCell::get_or_init: the closure runs only while the cell is empty
get_or_initMut(cell, tab) ==
    {[cell |-> [init |-> TRUE, v |-> sv], ran |-> TRUE] :
        sv \in sort_unstable_by_key(IndexPairs(tab))}
get_or_init(cell, tab) ==
    IF cell.init THEN {[cell |-> cell, ran |-> FALSE]}
    ELSE {[cell |-> [init |-> TRUE, v |-> sv], ran |-> TRUE] :
             sv \in sort_unstable_by_key(IndexPairs(tab))}

\* the binary search of partition_point between the 0-based indexes lo and
\* hi (hi excluded)
RECURSIVE partition_between(_, _, _, _)
partition_between(sv, tag, lo, hi) ==
    IF lo >= hi THEN lo
    ELSE LET mid == lo + ((hi - lo) \div 2) IN
         IF WLess(sv[mid + 1][1], tag)
         THEN partition_between(sv, tag, mid + 1, hi)
         ELSE partition_between(sv, tag, lo, mid)

\* sorted.partition_point(|&(t, _)| t < tag) from the 0-based index idx on:
\* the index of the first entry whose tag is not below tag
partition_point(sv, tag, idx) == partition_between(sv, tag, idx, Len(sv))

\* the part of find after the index is there
Lookup(sv, b, tab, tag) ==
    LET idx == partition_point(sv, tag, 0) IN
    IF idx >= Len(sv) THEN NoField
    ELSE IF sv[idx + 1][1] # tag THEN NoField
    ELSE FieldOf(b, tab, sv[idx + 1][2])

\* Message::find as a relation: the possible (cell after, field returned)
find(cell, b, tab, tag) ==
    {[cell |-> g.cell, ran |-> g.ran, field |-> Lookup(g.cell.v, b, tab, tag)] :
        g \in get_or_init(cell, tab)}

\* the tags a caller looks up
VersionText == <<70, 73, 88, 46, 52, 46, 52>>
NO_MISC_FEES == 136
MISC_FEE_AMT == 137
MSG_TYPE == 35
LookupTags == {BEGIN_STRING, U32(MSG_TYPE), U32(MISC_FEE_AMT)}

\* operations that leave every part of the state but ret alone
ReturnsMut(op, val) ==
    /\ HasMessage
    /\ ret' = [op |-> op, val |-> val]
    /\ \E g \in get_or_init(sorted, offsets) :
        /\ sorted' = g.cell
        /\ sorts' = sorts + (IF g.ran THEN 1 ELSE 0)
    /\ UNCHANGED <<buf, offsets, res, body,
                   disable_auto_calculate_body_length,
                   disable_auto_calculate_checksum, out, iter, leftover, group>>
Returns(op, val) ==
    /\ HasMessage
    /\ ret' = [op |-> op, val |-> val]
    /\ UNCHANGED <<buf, offsets, res, sorted, sorts, body,
                   disable_auto_calculate_body_length,
                   disable_auto_calculate_checksum, out, iter, leftover, group>>

MsgLen == Returns("len", Len(offsets))

IsEmpty == Returns("is_empty", Len(offsets) = 0)

\* field(index) with index < len(); an index out of range panics
FieldAt(i) ==
    /\ i < Len(offsets)
    /\ Returns("field", FieldOf(buf, offsets, i))

Fields ==
    Returns("fields", [i \in 1..Len(offsets) |-> FieldOf(buf, offsets, i - 1)])

Find(tag) ==
    /\ HasMessage
    /\ \E f \in find(sorted, buf, offsets, tag) :
        /\ sorted' = f.cell
        /\ sorts' = sorts + (IF f.ran THEN 1 ELSE 0)
        /\ ret' = [op |-> "find", val |-> [tag |-> tag, field |-> f.field]]
    /\ UNCHANGED <<buf, offsets, res, body,
                   disable_auto_calculate_body_length,
                   disable_auto_calculate_checksum, out, iter, leftover, group>>

\* fix_version: self.find(tag::BEGIN_STRING).map(|f| f.value)
FixVersion ==
    /\ HasMessage
    /\ \E f \in find(sorted, buf, offsets, BEGIN_STRING) :
        /\ sorted' = f.cell
        /\ sorts' = sorts + (IF f.ran THEN 1 ELSE 0)
        /\ ret' = [op |-> "fix_version", val |-> f.field]
    /\ UNCHANGED <<buf, offsets, res, body,
                   disable_auto_calculate_body_length,
                   disable_auto_calculate_checksum, out, iter, leftover, group>>

(***************************************************************************)
(* body_length.rs, checksum.rs and the two validators of message.rs        *)
(***************************************************************************)
\* str::from_utf8 on the value bytes; every buffer of the model is ASCII
from_utf8_ok(bs) == \A i \in 1..Len(bs) : bs[i] < 128

\* the ASCII bytes str::trim removes
Whitespace == {9, 10, 11, 12, 13, 32}

RECURSIVE trim_start(_)
trim_start(bs) ==
    IF bs # <<>> /\ bs[1] \in Whitespace THEN trim_start(Tail(bs)) ELSE bs

RECURSIVE trim_end(_)
trim_end(bs) ==
    IF bs # <<>> /\ bs[Len(bs)] \in Whitespace
    THEN trim_end(SubSeq(bs, 1, Len(bs) - 1)) ELSE bs

trim(bs) == trim_end(trim_start(bs))

\* str::parse for an unsigned integer of the given number of limbs: an
\* optional '+', then at least one digit, and no overflow
parse_unsigned(limbs, bs) ==
    LET ds == IF bs # <<>> /\ bs[1] = ChPlus THEN Tail(bs) ELSE bs IN
    IF ds = <<>> \/ ~AllDigits(ds) THEN [ok |-> FALSE, val |-> Wide(limbs, 0)]
    ELSE ParseChecked(Wide(limbs, 0), ds)

parse_body_length(value) ==
    IF ~from_utf8_ok(value) THEN [ok |-> FALSE, val |-> Usize(0)]
    ELSE parse_unsigned(UsizeLimbs, trim(value))

\* sum of every byte, wrapping in u8
RECURSIVE compute_checksum(_)
compute_checksum(bytes) ==
    IF bytes = <<>> THEN 0
    ELSE (compute_checksum(SubSeq(bytes, 1, Len(bytes) - 1))
            + bytes[Len(bytes)]) % 256

\* a decimal in 0..255, as a small integer
parse_checksum(value) ==
    IF ~from_utf8_ok(value) THEN [ok |-> FALSE, val |-> 0]
    ELSE LET r == parse_unsigned(U32Limbs, trim(value)) IN
         IF ~r.ok THEN [ok |-> FALSE, val |-> 0]
         ELSE IF r.val[1] > 0 \/ r.val[2] > 255 THEN [ok |-> FALSE, val |-> 0]
         ELSE [ok |-> TRUE, val |-> r.val[2]]

\* len("10=") == 3
ChecksumTagLenMut == Len(<<Ch0, Ch0 + 1, Ch0, FIELD_KEY_VALUE_SEPARATOR>>)
ChecksumTagLen == 3

\* the positional tests of the validators: self.offsets[i].0 == tag
HasTagAtMut(tab, i, tag) == \E j \in 1..Len(tab) : tab[j][1] = tag
HasTagAt(tab, i, tag) == tab[i + 1][1] = tag

saturating_sub(a, b) == IF a >= b THEN a - b ELSE 0

validate_body_length(b, tab) ==
    LET n == Len(tab) IN
    IF n < 3 THEN "InvalidBodyLength"
    ELSE IF ~HasTagAt(tab, 1, BODY_LENGTH) THEN "InvalidBodyLength"
    ELSE IF ~HasTagAt(tab, n - 1, CHECK_SUM) THEN "InvalidBodyLength"
    ELSE
      LET body_length_value_end == tab[2][3]
          checksum_value_start == tab[n][2]
          declared == parse_body_length(Slice(b, tab[2][2], body_length_value_end))
      IN
      IF ~declared.ok THEN "InvalidBodyLength"
      ELSE IF checksum_value_start < ChecksumTagLen THEN "panic"
      ELSE
        LET body_start == body_length_value_end + 1
            checksum_tag_start == checksum_value_start - ChecksumTagLen
            computed == saturating_sub(checksum_tag_start, body_start)
        IN IF Usize(computed) = declared.val THEN "Ok" ELSE "InvalidBodyLength"

validate_checksum(b, tab) ==
    LET n == Len(tab) IN
    IF n = 0 THEN "InvalidCheckSum"
    ELSE IF ~HasTagAt(tab, n - 1, CHECK_SUM) THEN "InvalidCheckSum"
    ELSE
      LET checksum_value_start == tab[n][2]
          checksum_value_end == tab[n][3]
          declared == parse_checksum(Slice(b, checksum_value_start, checksum_value_end))
      IN
      IF ~declared.ok THEN "InvalidCheckSum"
      ELSE IF checksum_value_start < ChecksumTagLen THEN "panic"
      ELSE
        LET checksum_tag_start == checksum_value_start - ChecksumTagLen
            computed == compute_checksum(Slice(b, 0, checksum_tag_start))
        IN IF computed = declared.val THEN "Ok" ELSE "InvalidCheckSum"

\* a panic: the operation returns nothing and the caller unwinds
Aborts(op) == Returns("abort", op)

ValidateBodyLength ==
    LET r == validate_body_length(buf, offsets) IN
    IF r = "panic" THEN Aborts("validate_body_length")
    ELSE Returns("validate_body_length", r)

ValidateChecksum ==
    LET r == validate_checksum(buf, offsets) IN
    IF r = "panic" THEN Aborts("validate_checksum")
    ELSE Returns("validate_checksum", r)

\* field(index) with index >= len(): the index into offsets panics
FieldOutOfRange(i) ==
    /\ i >= Len(offsets)
    /\ Aborts("field")

(***************************************************************************)
(* The group engine (group.rs) and Message::groups / all_groups            *)
(***************************************************************************)
\* iter().position(|&(t, _, _)| t == tag) within entries lo..hi (0-based,
\* hi excluded) of the table: an absolute index, or None
RECURSIVE position(_, _, _, _)
position(tab, lo, hi, tag) ==
    IF lo >= hi THEN None
    ELSE IF tab[lo + 1][1] = tag THEN lo
    ELSE position(tab, lo + 1, hi, tag)

\* parse_count: wrapping decimal, 0 on any non-digit byte
RECURSIVE ParseWrapping(_, _)
ParseWrapping(acc, bs) ==
    IF bs = <<>> THEN acc
    ELSE IF ~IsDigit(bs[1]) THEN Usize(0)
    ELSE ParseWrapping(WMulAdd10(acc, bs[1] - Ch0).val, Tail(bs))

RECURSIVE ParseLenient(_, _)
ParseLenient(acc, bs) ==
    IF bs = <<>> THEN acc
    ELSE IF ~IsDigit(bs[1]) THEN acc
    ELSE ParseLenient(WMulAdd10(acc, bs[1] - Ch0).val, Tail(bs))

parse_countMut(bytes) == ParseLenient(Usize(0), bytes)
parse_count(bytes) == ParseWrapping(Usize(0), bytes)

\* Message::groups and Group::groups over the entries lo..hi of the table;
\* a GroupIter holds its remaining entries as the range lo..hi
groupsMut(b, tab, lo, hi, spec) ==
    LET pos == position(tab, lo, hi, spec.count_tag) IN
    IF pos = None
    THEN [live |-> TRUE, lo |-> 0, hi |-> 0,
          delimiter_tag |-> spec.delimiter_tag, count |-> Usize(0), emitted |-> 0]
    ELSE [live |-> TRUE, lo |-> pos + 1, hi |-> Len(tab),
          delimiter_tag |-> spec.delimiter_tag,
          count |-> parse_count(Slice(b, tab[pos + 1][2], tab[pos + 1][3])),
          emitted |-> 0]
groups(b, tab, lo, hi, spec) ==
    LET pos == position(tab, lo, hi, spec.count_tag) IN
    IF pos = None
    THEN [live |-> TRUE, lo |-> 0, hi |-> 0,
          delimiter_tag |-> spec.delimiter_tag, count |-> Usize(0), emitted |-> 0]
    ELSE [live |-> TRUE, lo |-> pos + 1, hi |-> hi,
          delimiter_tag |-> spec.delimiter_tag,
          count |-> parse_count(Slice(b, tab[pos + 1][2], tab[pos + 1][3])),
          emitted |-> 0]

\* where the instance that starts at entry from ends: the next entry with
\* the delimiter tag after its first entry, or the end of the remaining range
InstanceEnd(tab, from, hi, delimiter_tag) ==
    LET nxt == position(tab, from + 1, hi, delimiter_tag) IN
    IF nxt = None THEN hi ELSE nxt

\* GroupIter::next: the iterator after the call and the Group returned
\* next with the remaining range cut one entry after the instance
nextSkipMut(tab, it) ==
    IF ~WLess(Usize(it.emitted), it.count) \/ it.lo >= it.hi
    THEN [iter |-> it, group |-> NoGroup]
    ELSE LET end_offset == InstanceEnd(tab, it.lo, it.hi, it.delimiter_tag) IN
         [iter |-> [it EXCEPT !.lo = end_offset + 1, !.emitted = it.emitted + 1],
          group |-> [some |-> TRUE, lo |-> it.lo, hi |-> end_offset]]
\* next that starts to count again when it returns None
nextRestartMut(tab, it) ==
    IF ~WLess(Usize(it.emitted), it.count) \/ it.lo >= it.hi
    THEN [iter |-> [it EXCEPT !.emitted = 0], group |-> NoGroup]
    ELSE LET end_offset == InstanceEnd(tab, it.lo, it.hi, it.delimiter_tag) IN
         [iter |-> [it EXCEPT !.lo = end_offset, !.emitted = it.emitted + 1],
          group |-> [some |-> TRUE, lo |-> it.lo, hi |-> end_offset]]
nextMut(tab, it) ==
    IF WLess(it.count, Usize(it.emitted)) \/ it.lo >= it.hi
    THEN [iter |-> it, group |-> NoGroup]
    ELSE LET end_offset == InstanceEnd(tab, it.lo, it.hi, it.delimiter_tag) IN
         [iter |-> [it EXCEPT !.lo = end_offset, !.emitted = it.emitted + 1],
          group |-> [some |-> TRUE, lo |-> it.lo, hi |-> end_offset]]
next(tab, it) ==
    IF ~WLess(Usize(it.emitted), it.count) \/ it.lo >= it.hi
    THEN [iter |-> it, group |-> NoGroup]
    ELSE LET end_offset == InstanceEnd(tab, it.lo, it.hi, it.delimiter_tag) IN
         [iter |-> [it EXCEPT !.lo = end_offset, !.emitted = it.emitted + 1],
          group |-> [some |-> TRUE, lo |-> it.lo, hi |-> end_offset]]

\* GroupIter::size_hint: (left, Some(left))
size_hint(it) ==
    LET left == WSaturatingSub(it.count, Usize(it.emitted)) IN
    [lower |-> left, upper |-> left]

GroupSpecOf(pair) == [count_tag |-> U32(pair[1]), delimiter_tag |-> U32(pair[2])]

\* the (count tag, delimiter tag) of the built-in schemas, in array order
FIX42_GROUPS ==
    << <<78, 79>>, <<73, 11>>, <<82, 83>>, <<85, 86>>, <<124, 17>>,
       <<136, 137>>, <<146, 46>>, <<199, 104>>, <<215, 216>>, <<267, 269>>,
       <<268, 269>>, <<295, 299>>, <<296, 302>>, <<382, 375>>, <<384, 372>>,
       <<386, 336>>, <<398, 399>>, <<420, 439>>, <<428, 55>> >>

FIX44_GROUPS ==
    FIX42_GROUPS \o
    << <<453, 448>>, <<454, 455>>, <<457, 458>>, <<473, 474>>, <<510, 477>>,
       <<518, 519>>, <<539, 524>>, <<552, 54>>, <<558, 167>>, <<534, 535>>,
       <<555, 600>>, <<711, 311>>, <<702, 703>>, <<735, 695>>, <<753, 707>>,
       <<756, 757>>, <<768, 769>>, <<778, 162>>, <<781, 782>>, <<802, 523>>,
       <<804, 545>>, <<806, 760>>, <<816, 817>>, <<862, 528>>, <<864, 865>>,
       <<870, 871>>, <<887, 888>>, <<897, 571>>, <<936, 930>>, <<938, 896>>,
       <<948, 949>>, <<604, 605>>, <<683, 688>>, <<670, 671>>, <<627, 628>>,
       <<576, 577>> >>

MISC_FEES == GroupSpecOf(<<NO_MISC_FEES, MISC_FEE_AMT>>)

\* the filter_map of all_groups over the chosen array
RECURSIVE PresentGroups(_, _, _)
PresentGroups(b, tab, specs) ==
    IF specs = <<>> THEN <<>>
    ELSE LET spec == GroupSpecOf(specs[1])
             found == position(tab, 0, Len(tab), spec.count_tag)
             rest == PresentGroups(b, tab, Tail(specs))
         IN IF found = None THEN rest
            ELSE IF WIsZero(parse_count(Slice(b, tab[found + 1][2], tab[found + 1][3])))
            THEN rest
            ELSE <<[spec |-> spec, iter |-> groups(b, tab, 0, Len(tab), spec)]>> \o rest

\* the caller asks for the instances of one schema and keeps the iterator
Groups(spec) ==
    /\ HasMessage
    /\ iter' = groups(buf, offsets, 0, Len(offsets), spec)
    /\ ret' = [op |-> "groups", val |-> spec]
    /\ group' = NoGroup
    /\ UNCHANGED <<buf, offsets, res, sorted, sorts, body,
                   disable_auto_calculate_body_length,
                   disable_auto_calculate_checksum, out, leftover>>

\* all_groups, collected: fix_version() picks the array, the filter runs
AllGroups ==
    /\ HasMessage
    /\ \E f \in find(sorted, buf, offsets, BEGIN_STRING) :
        LET specs == IF f.field.some /\ f.field.value = VersionText
                     THEN FIX44_GROUPS ELSE FIX42_GROUPS
        IN /\ sorted' = f.cell
           /\ sorts' = sorts + (IF f.ran THEN 1 ELSE 0)
           /\ ret' = [op |-> "all_groups",
                      val |-> PresentGroups(buf, offsets, specs)]
    /\ UNCHANGED <<buf, offsets, res, body,
                   disable_auto_calculate_body_length,
                   disable_auto_calculate_checksum, out, iter, leftover, group>>

\* the caller advances the iterator it holds
GroupNext ==
    /\ HasMessage
    /\ iter.live
    /\ LET r == next(offsets, iter) IN
        /\ iter' = r.iter
        /\ ret' = [op |-> "next", val |-> r.group]
    /\ UNCHANGED <<buf, offsets, res, sorted, sorts, body,
                   disable_auto_calculate_body_length,
                   disable_auto_calculate_checksum, out, leftover, group>>

\* Group::groups on the instance the iterator returned last: the caller goes
\* on with the iterator over the nested group
GroupGroups(spec) ==
    /\ HasMessage
    /\ ret.op = "next"
    /\ ret.val.some
    /\ iter' = groups(buf, offsets, ret.val.lo, ret.val.hi, spec)
    /\ ret' = [op |-> "groups", val |-> spec]
    /\ group' = ret.val
    /\ UNCHANGED <<buf, offsets, res, sorted, sorts, body,
                   disable_auto_calculate_body_length,
                   disable_auto_calculate_checksum, out, leftover>>

\* the caller asks the iterator it holds for its size hint
SizeHint ==
    /\ HasMessage
    /\ iter.live
    /\ ret' = [op |-> "size_hint", val |-> size_hint(iter)]
    /\ UNCHANGED <<buf, offsets, res, sorted, sorts, body,
                   disable_auto_calculate_body_length,
                   disable_auto_calculate_checksum, out, iter, leftover, group>>

(***************************************************************************)
(* Encoder (encoder.rs)                                                    *)
(***************************************************************************)
DEFAULT_VERSION == VersionText

\* format!("{:03}", checksum) for a u8
Pad3(n) == <<Ch0 + (n \div 100), Ch0 + ((n \div 10) % 10), Ch0 + (n % 10)>>

IsIntegrityTagMut(t) == t = BEGIN_STRING \/ t = CHECK_SUM
IsIntegrityTag(t) == t = BEGIN_STRING \/ t = BODY_LENGTH \/ t = CHECK_SUM

\* the loop that fills the scratch body from entry i on
RECURSIVE BodyBytes(_, _, _)
BodyBytes(b, tab, i) ==
    IF i >= Len(tab) THEN <<>>
    ELSE LET f == FieldOf(b, tab, i) IN
         (IF IsIntegrityTag(f.tag) THEN <<>>
          ELSE WireField(to_string(f.tag), f.value))
         \o BodyBytes(b, tab, i + 1)

\* the length field as encode writes it
LengthFieldMut(sv, b, tab, bodyBytes, disable) ==
    IF disable
    THEN LET f == Lookup(sv, b, tab, BODY_LENGTH) IN
         IF f.some THEN WireField(to_string(BODY_LENGTH), f.value) ELSE <<>>
    ELSE WireField(to_string(BODY_LENGTH), to_string(Usize(Len(bodyBytes) + 1)))
LengthField(sv, b, tab, bodyBytes, disable) ==
    IF disable
    THEN LET f == Lookup(sv, b, tab, BODY_LENGTH) IN
         IF f.some THEN WireField(to_string(BODY_LENGTH), f.value) ELSE <<>>
    ELSE WireField(to_string(BODY_LENGTH), to_string(Usize(Len(bodyBytes))))

\* the checksum field as encode writes it after the bytes written so far
ChecksumField(sv, b, tab, written, disable) ==
    IF disable
    THEN LET f == Lookup(sv, b, tab, CHECK_SUM) IN
         IF f.some THEN WireField(to_string(CHECK_SUM), f.value) ELSE <<>>
    ELSE WireField(to_string(CHECK_SUM), Pad3(compute_checksum(written)))

\* Encoder::encode as a relation: the index cell after the first find, the
\* scratch body and the output
encode(cell, b, tab, disable_bl, disable_cs) ==
    {LET version == IF f.field.some THEN f.field.value ELSE DEFAULT_VERSION
         bodyBytes == BodyBytes(b, tab, 0)
         head == WireField(to_string(BEGIN_STRING), version)
                 \o LengthField(f.cell.v, b, tab, bodyBytes, disable_bl)
                 \o bodyBytes
     IN [cell |-> f.cell, ran |-> f.ran, body |-> bodyBytes,
         out |-> head \o ChecksumField(f.cell.v, b, tab, head, disable_cs)] :
        f \in find(cell, b, tab, BEGIN_STRING)}

\* encode on a new Encoder into a new Vec, both dropped after the output was
\* read: Encoder::new().encode(&msg, &mut Vec::new())
EncodeOnce ==
    /\ HasMessage
    /\ \E e \in encode(sorted, buf, offsets, FALSE, FALSE) :
        /\ sorted' = e.cell
        /\ sorts' = sorts + (IF e.ran THEN 1 ELSE 0)
        /\ ret' = [op |-> "encode", val |-> e.out]
    /\ UNCHANGED <<buf, offsets, res, body, disable_auto_calculate_body_length,
                   disable_auto_calculate_checksum, out, iter, leftover, group>>

(***************************************************************************)
(* Inputs of the Message operations: short messages over a pool of fields  *)
(* with a repeated tag, a version field and a repeating group.             *)
(***************************************************************************)
MaxMsgFields == 2
MsgFieldPool ==
    {<<to_string(BEGIN_STRING), VersionText>>,
     <<to_string(BEGIN_STRING), <<ChX>>>>,
     <<to_string(U32(NO_MISC_FEES)), <<Ch0 + 1>>>>,
     <<to_string(U32(MISC_FEE_AMT)), <<ChX>>>>}
MsgInputs == {Wire(fs) : fs \in SeqsUpTo(MsgFieldPool, MaxMsgFields)}

DecodeMsg == \E b \in MsgInputs : Decode(b)
FieldAny == \E i \in 0..MaxMsgFields : FieldAt(i)
FindAny == \E t \in LookupTags : Find(t)

NextMsg ==
    \/ DecodeMsg
    \/ MsgLen
    \/ IsEmpty
    \/ FieldAny
    \/ Fields
    \/ FindAny
    \/ FixVersion
    \/ Groups(MISC_FEES)
    \/ AllGroups
    \/ ValidateBodyLength
    \/ ValidateChecksum
    \/ EncodeOnce
SpecMsg == Init /\ [][NextMsg]_vars

(***************************************************************************)
(* Claims about the lookup index, checked under SpecMsg                    *)
(***************************************************************************)
\* a manual scan of fields() for the first field with the tag
FirstInWireOrder(b, tab, tag) ==
    LET i == position(tab, 0, Len(tab), tag) IN
    IF i = None THEN NoField ELSE FieldOf(b, tab, i)

\* C2: find(t) returns the first field in wire order whose tag is t, or none
\* when no field has tag t, however many find calls were made before
C2_FindReturnsFirstInWireOrder ==
    ret.op = "find" =>
        ret.val.field = FirstInWireOrder(buf, offsets, ret.val.tag)

\* C8: on one Message the closure that builds the sorted index runs at most
\* once; the first lookup builds it and no later operation rebuilds or
\* modifies it
C8_IndexBuiltAtMostOnce ==
    [][ret'.op # "decode" =>
          /\ sorts' <= 1
          /\ (sorted.init => sorted' = sorted /\ sorts' = sorts)
          /\ (ret'.op = "find" => sorted'.init /\ sorts' = 1)
          /\ (ret'.op = "find" /\ ~sorted.init => sorts' = sorts + 1)]_vars

\* an operation ran on a Message whose index had been built before
C8_Witness ==
    /\ ret.op = "len"
    /\ sorted.init
    /\ sorts = 1
    /\ Len(sorted.v) = Len(offsets)
    /\ Len(offsets) >= 2

\* the operations of C9's list
NonFindOps ==
    {"len", "is_empty", "field", "fields", "fix_version", "groups",
     "all_groups", "validate_body_length", "validate_checksum", "encode"}

\* those of them that never look a tag up
NoLookupOps ==
    {"len", "is_empty", "field", "fields", "groups",
     "validate_body_length", "validate_checksum"}

\* those of them that look tag 8 up through find
VersionLookupOps == {"fix_version", "all_groups", "encode"}

\* C9 as stated: none of the operations other than find builds the index
C9_OnlyFindBuildsIndex ==
    [][ret'.op \in NonFindOps /\ ~sorted.init =>
          ~sorted'.init /\ sorts' = sorts]_vars

\* C9 amended: len, is_empty, field, fields, groups, validate_body_length and
\* validate_checksum leave the index as it is (unbuilt stays unbuilt), while
\* fix_version, all_groups and Encoder::encode look tag 8 up and leave the
\* index built
C9_NoLookupOpsLeaveIndexUnbuilt ==
    [][/\ (ret'.op \in NoLookupOps => sorted' = sorted /\ sorts' = sorts)
       /\ (ret'.op \in VersionLookupOps =>
              sorted'.init /\ sorts' = sorts + (IF sorted.init THEN 0 ELSE 1))]_vars

\* a validator ran on a Message with fields and the index is still unbuilt
C9_Witness ==
    /\ ret.op = "validate_checksum"
    /\ ~sorted.init
    /\ sorts = 0
    /\ Len(offsets) >= 2

(***************************************************************************)
(* Messages of more fields than a u16 counts: n fields with the tags       *)
(* 10000, 10001, ... in this order and empty values.                       *)
(***************************************************************************)
FamilyTag(i) == U32(9999 + i)
FamilyField(i) == WireField(to_string(FamilyTag(i)), <<>>)
FamilyFieldLen == Len(FamilyField(1))

FamilyBuf(n) ==
    LET fs == [i \in 1..n |-> FamilyField(i)] IN
    [k \in 1..(n * FamilyFieldLen) |->
        fs[((k - 1) \div FamilyFieldLen) + 1][((k - 1) % FamilyFieldLen) + 1]]

\* the table decode builds for FamilyBuf(n): entry i holds the tag of field
\* i and twice the offset of its terminator, the value being empty
FamilyTable(n) ==
    [i \in 1..n |->
        <<FamilyTag(i), AsU32(i * FamilyFieldLen - 1), AsU32(i * FamilyFieldLen - 1)>>]

MaxLongExtra == 1
MaxFamilyShort == 3

LongFieldCount == U16Mod + MaxLongExtra

\* Decoder::new().decode(long).unwrap().find(tag) on the message of
\* LongFieldCount fields, as the first thing the caller does; the Decoder,
\* the Message and the buffer are dropped and the field returned is kept
FindInLong(tag) ==
    /\ ret.op = "new"
    /\ LET b == FamilyBuf(LongFieldCount)
           tab == FamilyTable(LongFieldCount)
       IN \E f \in find(UnbuiltIndex, b, tab, tag) :
            ret' = [op |-> "find_in_long", val |-> [tag |-> tag, field |-> f.field]]
    /\ UNCHANGED <<buf, offsets, res, sorted, sorts, body,
                   disable_auto_calculate_body_length,
                   disable_auto_calculate_checksum, out, iter, leftover, group>>

DecodeFamily == \E n \in 1..MaxFamilyShort : Decode(FamilyBuf(n))

ShortLookupTags ==
    {BEGIN_STRING, U32(MISC_FEE_AMT), FamilyTag(1), FamilyTag(MaxFamilyShort)}
LongLookupTags == {FamilyTag(1), FamilyTag(LongFieldCount)}
FindShort == \E t \in ShortLookupTags : Find(t)
FindLong == \E t \in LongLookupTags : FindInLong(t)

NextLong ==
    \/ DecodeFamily
    \/ DecodeMsg
    \/ FindShort
    \/ FindLong
SpecLong == Init /\ [][NextLong]_vars

\* C29: every entry of the sorted index holds the position of a table entry
\* with the entry's tag, whatever the number of fields, so find(t) returns a
\* field exactly when some field has the tag t, and the field it returns has
\* the tag t
C29_IndexEntriesPointAtTheirTag ==
    /\ sorted.init =>
          \A k \in 1..Len(sorted.v) :
              /\ sorted.v[k][2] < Len(offsets)
              /\ offsets[sorted.v[k][2] + 1][1] = sorted.v[k][1]
    /\ ret.op = "find" =>
          /\ ret.val.field.some <=>
                \E i \in 1..Len(offsets) : offsets[i][1] = ret.val.tag
          /\ ret.val.field.some => ret.val.field.tag = ret.val.tag
    /\ ret.op = "find_in_long" =>
          /\ ret.val.field.some <=>
                \E i \in 1..LongFieldCount : FamilyTag(i) = ret.val.tag
          /\ ret.val.field.some => ret.val.field.tag = ret.val.tag

(***************************************************************************)
(* Framed messages: a first field, the length field, body fields and the   *)
(* checksum field, with the length and the checksum written in several     *)
(* ways, right and wrong.                                                  *)
(***************************************************************************)
MaxBodyFields == 1

\* first fields: a version other than the default, and a field that is not
\* tag 8
FirstFields ==
    {WireField(to_string(BEGIN_STRING), <<ChX>>),
     WireField(to_string(U32(MSG_TYPE)), <<ChX>>)}

\* body fields: plain, a tag written with a leading zero, a second tag 8
BodyFieldPool ==
    {WireField(to_string(U32(MSG_TYPE)), <<ChX>>),
     WireField(<<Ch0>> \o to_string(U32(MSG_TYPE)), <<ChX>>),
     WireField(to_string(BEGIN_STRING), VersionText)}

RECURSIVE Concat(_)
Concat(ss) == IF ss = <<>> THEN <<>> ELSE ss[1] \o Concat(Tail(ss))

Bodies == {Concat(fs) : fs \in SeqsUpTo(BodyFieldPool, MaxBodyFields)}

\* the length n as text: plain, with a leading zero, and off by one
LengthTexts(n) ==
    {to_string(Usize(n)), <<Ch0>> \o to_string(Usize(n)), to_string(Usize(n + 1))}

\* the checksum c as text: three digits, unpadded, and off by one
ChecksumTexts(c) ==
    {Pad3(c), to_string(U32(c)), Pad3((c + 1) % 256)}

Framed(first, lengthText, bodyBytes) ==
    first \o WireField(to_string(BODY_LENGTH), lengthText) \o bodyBytes

FramedInputs ==
    UNION {UNION {{Framed(first, lt, bd) \o WireField(to_string(CHECK_SUM), ct) :
                       ct \in ChecksumTexts(compute_checksum(Framed(first, lt, bd)))} :
                   lt \in LengthTexts(Len(bd))} :
           first \in FirstFields, bd \in Bodies}

DecodeFramed == \E b \in FramedInputs : Decode(b)

\* messages without version, length and checksum fields
DecodeBare == \E b \in Bodies : Decode(b)

NextEnc ==
    \/ DecodeFramed
    \/ DecodeBare
    \/ ValidateBodyLength
    \/ ValidateChecksum
    \/ EncodeOnce
SpecEnc == Init /\ [][NextEnc]_vars

(***************************************************************************)
(* Claims about the round trip, checked under SpecEnc                      *)
(***************************************************************************)
BothValidatorsSucceed ==
    /\ validate_body_length(buf, offsets) = "Ok"
    /\ validate_checksum(buf, offsets) = "Ok"

\* C1 as stated: when both validators succeed on decode(raw), encode with
\* default settings reproduces raw
C1_RoundTrip ==
    ret.op = "encode" /\ BothValidatorsSucceed => ret.val = buf

\* the bytes field i's tag is written with
TagText(b, tab, i) ==
    Slice(b, IF i = 0 THEN 0 ELSE tab[i][3] + 1, tab[i + 1][2] - 1)

\* raw is written the way encode writes: tags without leading zeros, tag 8
\* first and only there, tag 9 only second with a plain decimal value, tag 10
\* only last with a value of three digits
Canonical(b, tab) ==
    LET n == Len(tab) IN
    /\ n >= 3
    /\ \A i \in 0..(n - 1) : TagText(b, tab, i) = to_string(tab[i + 1][1])
    /\ \A i \in 0..(n - 1) :
        /\ tab[i + 1][1] = BEGIN_STRING <=> i = 0
        /\ tab[i + 1][1] = BODY_LENGTH <=> i = 1
        /\ tab[i + 1][1] = CHECK_SUM <=> i = n - 1
    /\ LET lv == Slice(b, tab[2][2], tab[2][3]) IN
        /\ parse_body_length(lv).ok
        /\ lv = to_string(parse_body_length(lv).val)
    /\ LET cv == Slice(b, tab[n][2], tab[n][3]) IN
        Len(cv) = 3 /\ AllDigits(cv)

\* C1 amended: when both validators succeed on decode(raw) and raw is in the
\* canonical form above, encode with default settings reproduces raw
C1_RoundTripOfCanonical ==
    ret.op = "encode" /\ BothValidatorsSucceed /\ Canonical(buf, offsets)
        => ret.val = buf

\* a valid canonical message with a body field was encoded back to itself
C1_Witness ==
    /\ ret.op = "encode"
    /\ BothValidatorsSucceed
    /\ Canonical(buf, offsets)
    /\ Len(offsets) >= 4
    /\ ret.val = buf

\* C14: the output o1 of encode with default settings decodes to a message
\* on which both validators succeed and which encode with default settings
\* writes as o1 again, whatever the encoded message declared
C14_ReencodeIdempotent ==
    ret.op = "encode" =>
        LET o1 == ret.val
            d == decode(offsets, o1)
        IN /\ d.res = "ok"
           /\ validate_body_length(o1, d.offsets) = "Ok"
           /\ validate_checksum(o1, d.offsets) = "Ok"
           /\ \A e \in encode(UnbuiltIndex, o1, d.offsets, FALSE, FALSE) :
                  e.out = o1

\* a message with a body field that declared a wrong length was encoded
C14_Witness ==
    /\ ret.op = "encode"
    /\ Len(offsets) >= 4
    /\ validate_body_length(buf, offsets) = "InvalidBodyLength"
    /\ ret.val # buf
    /\ validate_body_length(ret.val, decode(offsets, ret.val).offsets) = "Ok"

\* the message's fields that are neither version, length nor checksum, in
\* the message's order
BodyFieldsOf(b, tab) ==
    SelectSeq([i \in 1..Len(tab) |-> FieldOf(b, tab, i - 1)],
              LAMBDA f : f.tag \notin {BEGIN_STRING, BODY_LENGTH, CHECK_SUM})

\* the message's own value for the tag: that of its first field with it
OwnValue(b, tab, tag) == FirstInWireOrder(b, tab, tag)

\* n as three decimal digits
ThreeDigits(n) ==
    [k \in 1..3 |-> Ch0 + ((n \div (IF k = 1 THEN 100 ELSE IF k = 2 THEN 10 ELSE 1)) % 10)]

\* the output the encoder is to write for the message under the switches
ExpectedOutput(b, tab, disable_bl, disable_cs) ==
    LET bfs == BodyFieldsOf(b, tab)
        bodyText == Concat([k \in 1..Len(bfs) |->
                              to_string(bfs[k].tag) \o <<FIELD_KEY_VALUE_SEPARATOR>>
                              \o bfs[k].value \o <<FIELD_SEPARATOR>>])
        v == OwnValue(b, tab, BEGIN_STRING)
        l == OwnValue(b, tab, BODY_LENGTH)
        c == OwnValue(b, tab, CHECK_SUM)
        versionPart == WireField(<<Ch0 + 8>>, IF v.some THEN v.value ELSE VersionText)
        lengthPart ==
            IF ~disable_bl
            THEN WireField(<<Ch0 + 9>>, to_string(Usize(Len(bodyText))))
            ELSE IF l.some THEN WireField(<<Ch0 + 9>>, l.value) ELSE <<>>
        pre == versionPart \o lengthPart \o bodyText
        checksumPart ==
            IF ~disable_cs
            THEN WireField(<<Ch0 + 1, Ch0>>, ThreeDigits(compute_checksum(pre)))
            ELSE IF c.some THEN WireField(<<Ch0 + 1, Ch0>>, c.value) ELSE <<>>
    IN pre \o checksumPart

\* C19: with default settings the output is the version field (the
\* message's version value, or FIX.4.4 when it has none), the length field
\* with the decimal byte count of the body, the body (every field that is
\* not version, length or checksum, as decimal tag, '=', value, 0x01, in
\* the message's order) and the checksum field with the 3-digit sum modulo
\* 256 of the bytes written before it
C19_DefaultOutputLayout ==
    ret.op = "encode" => ret.val = ExpectedOutput(buf, offsets, FALSE, FALSE)

(***************************************************************************)
(* The Encoder the caller keeps, with its two switches                     *)
(***************************************************************************)
\* the setter with a write to the other switch as well
SetDisableBodyLengthMut(disable) ==
    /\ disable_auto_calculate_body_length' = disable
    /\ disable_auto_calculate_checksum' = disable
    /\ ret' = [op |-> "disable_auto_calculate_body_length", val |-> <<disable>>]
    /\ UNCHANGED <<buf, offsets, res, sorted, sorts, body, out, iter, leftover, group>>
SetDisableBodyLength(disable) ==
    /\ disable_auto_calculate_body_length' = disable
    /\ ret' = [op |-> "disable_auto_calculate_body_length", val |-> <<disable>>]
    /\ UNCHANGED <<buf, offsets, res, sorted, sorts, body,
                   disable_auto_calculate_checksum, out, iter, leftover, group>>

SetDisableChecksum(disable) ==
    /\ disable_auto_calculate_checksum' = disable
    /\ ret' = [op |-> "disable_auto_calculate_checksum", val |-> <<disable>>]
    /\ UNCHANGED <<buf, offsets, res, sorted, sorts, body,
                   disable_auto_calculate_body_length, out, iter, leftover, group>>

\* encode on the Encoder the caller keeps, into a new Vec that is dropped
\* after the output was read; the scratch body stays in the Encoder
Encode ==
    /\ HasMessage
    /\ \E e \in encode(sorted, buf, offsets,
                       disable_auto_calculate_body_length,
                       disable_auto_calculate_checksum) :
        /\ sorted' = e.cell
        /\ sorts' = sorts + (IF e.ran THEN 1 ELSE 0)
        /\ body' = e.body
        /\ ret' = [op |-> "encode", val |-> e.out]
    /\ UNCHANGED <<buf, offsets, res, disable_auto_calculate_body_length,
                   disable_auto_calculate_checksum, out, iter, leftover, group>>

\* short messages over length fields of two values, a checksum field and a
\* body field
MaxSwFields == 2
SwFieldPool ==
    {<<to_string(BODY_LENGTH), <<Ch0 + 1>>>>,
     <<to_string(BODY_LENGTH), <<Ch0 + 7>>>>,
     <<to_string(CHECK_SUM), <<Ch0, Ch0, Ch0 + 1>>>>,
     <<to_string(U32(MSG_TYPE)), <<ChX>>>>}
SwInputs == {Wire(fs) : fs \in SeqsUpTo(SwFieldPool, MaxSwFields)}

DecodeSw == \E b \in SwInputs : Decode(b)
SetDisableBodyLengthAny == \E d \in BOOLEAN : SetDisableBodyLength(d)
SetDisableChecksumAny == \E d \in BOOLEAN : SetDisableChecksum(d)

NextSw ==
    \/ DecodeSw
    \/ SetDisableBodyLengthAny
    \/ SetDisableChecksumAny
    \/ Encode
SpecSw == Init /\ [][NextSw]_vars

(***************************************************************************)
(* Claims about the switches, checked under SpecSw                         *)
(***************************************************************************)
\* C20: with the automatic length (checksum) switched off, encode writes the
\* length (checksum) field with the message's own value byte for byte when
\* the message has the field, wrong values included, and leaves the field
\* out when it has not
C20_DisabledFieldPassesThrough ==
    /\ ret.op = "encode"
    /\ disable_auto_calculate_body_length \/ disable_auto_calculate_checksum
    => ret.val = ExpectedOutput(buf, offsets,
                                disable_auto_calculate_body_length,
                                disable_auto_calculate_checksum)

\* the values of the message's fields with the tag
ValuesOfTag(b, tab, tag) ==
    {FieldOf(b, tab, i).value : i \in {j \in 0..(Len(tab) - 1) : tab[j + 1][1] = tag}}

\* the outputs that agree with the switches: a length (checksum) field that
\* is computed anew when its switch is off, and one taken from the message,
\* or none when the message has none, when its switch is on
SwitchedOutputs(b, tab, disable_bl, disable_cs) ==
    LET bfs == BodyFieldsOf(b, tab)
        bodyText == Concat([k \in 1..Len(bfs) |->
                              to_string(bfs[k].tag) \o <<FIELD_KEY_VALUE_SEPARATOR>>
                              \o bfs[k].value \o <<FIELD_SEPARATOR>>])
        versions == IF ValuesOfTag(b, tab, BEGIN_STRING) = {} THEN {VersionText}
                    ELSE ValuesOfTag(b, tab, BEGIN_STRING)
        lengthParts ==
            IF ~disable_bl
            THEN {WireField(<<Ch0 + 9>>, to_string(Usize(Len(bodyText))))}
            ELSE IF ValuesOfTag(b, tab, BODY_LENGTH) = {} THEN {<<>>}
            ELSE {WireField(<<Ch0 + 9>>, l) : l \in ValuesOfTag(b, tab, BODY_LENGTH)}
        checksumParts(pre) ==
            IF ~disable_cs
            THEN {WireField(<<Ch0 + 1, Ch0>>, ThreeDigits(compute_checksum(pre)))}
            ELSE IF ValuesOfTag(b, tab, CHECK_SUM) = {} THEN {<<>>}
            ELSE {WireField(<<Ch0 + 1, Ch0>>, c) : c \in ValuesOfTag(b, tab, CHECK_SUM)}
    IN UNION {UNION {{WireField(<<Ch0 + 8>>, v) \o lp \o bodyText \o cp :
                        cp \in checksumParts(WireField(<<Ch0 + 8>>, v) \o lp \o bodyText)} :
                     lp \in lengthParts} : v \in versions}

\* C21: both switches are off ("recompute") on a new Encoder; setting one
\* switch gives it the value set and leaves the other as it was; encode
\* leaves both as they were and writes the length and the checksum field
\* according to the values the switches have at that call, whatever was set
\* and encoded before
C21_SwitchesIndependentAndPersistent ==
    /\ (ret.op = "new" =>
            /\ ~disable_auto_calculate_body_length
            /\ ~disable_auto_calculate_checksum)
    /\ [][/\ (ret'.op = "disable_auto_calculate_body_length" =>
                /\ disable_auto_calculate_body_length' = ret'.val[1]
                /\ disable_auto_calculate_checksum' = disable_auto_calculate_checksum)
          /\ (ret'.op = "disable_auto_calculate_checksum" =>
                /\ disable_auto_calculate_checksum' = ret'.val[1]
                /\ disable_auto_calculate_body_length' = disable_auto_calculate_body_length)
          /\ (ret'.op = "encode" =>
                /\ disable_auto_calculate_body_length' = disable_auto_calculate_body_length
                /\ disable_auto_calculate_checksum' = disable_auto_calculate_checksum
                /\ ret'.val \in SwitchedOutputs(buf, offsets,
                                                disable_auto_calculate_body_length,
                                                disable_auto_calculate_checksum))]_vars

\* an encode with the length recomputed and the checksum passed through, of a
\* message whose length field is wrong, on an Encoder that encoded before
C21_Witness ==
    /\ ret.op = "encode"
    /\ ~disable_auto_calculate_body_length
    /\ disable_auto_calculate_checksum
    /\ ValuesOfTag(buf, offsets, BODY_LENGTH) # {}
    /\ ValuesOfTag(buf, offsets, CHECK_SUM) # {}
    /\ ret.val \notin SwitchedOutputs(buf, offsets, TRUE, TRUE)
    /\ ret.val \notin SwitchedOutputs(buf, offsets, FALSE, FALSE)

(***************************************************************************)
(* encode into the Vec the caller keeps, on the Encoder the caller keeps   *)
(***************************************************************************)
\* self.body.clear()
ClearBody(v) == <<>>

\* out.clear()
ClearOutMut(v) == v
ClearOut(v) == <<>>

\* Encoder::encode with the scratch body and the output as they are at the
\* call: the index cell after the first find, the scratch body and the output
\* after the call
encode_into(cell, b, tab, disable_bl, disable_cs, body0, out0) ==
    {LET version == IF f.field.some THEN f.field.value ELSE DEFAULT_VERSION
         body1 == ClearBody(body0) \o BodyBytes(b, tab, 0)
         out1 == ClearOut(out0) \o WireField(to_string(BEGIN_STRING), version)
         out2 == out1 \o LengthField(f.cell.v, b, tab, body1, disable_bl)
         out3 == out2 \o body1
     IN [cell |-> f.cell, ran |-> f.ran, body |-> body1,
         out |-> out3 \o ChecksumField(f.cell.v, b, tab, out3, disable_cs)] :
        f \in find(cell, b, tab, BEGIN_STRING)}

\* enc.encode(&msg, &mut out); ret keeps the output and the scratch body as
\* they were at the call
EncodeInto ==
    /\ HasMessage
    /\ \E e \in encode_into(sorted, buf, offsets,
                            disable_auto_calculate_body_length,
                            disable_auto_calculate_checksum, body, out) :
        /\ sorted' = e.cell
        /\ sorts' = sorts + (IF e.ran THEN 1 ELSE 0)
        /\ body' = e.body
        /\ out' = e.out
        /\ ret' = [op |-> "encode_into", val |-> <<out, body>>]
    /\ UNCHANGED <<buf, offsets, res, disable_auto_calculate_body_length,
                   disable_auto_calculate_checksum, iter, leftover, group>>

\* what the caller may have left in the Vec: b"stale_data".to_vec()
StaleOutputs == {<<ChX, ChX>>, <<Ch0 + 8, FIELD_KEY_VALUE_SEPARATOR, ChX, FIELD_SEPARATOR>>}

FillOut ==
    /\ \E stale \in StaleOutputs :
        /\ out' = stale
        /\ ret' = [op |-> "to_vec", val |-> stale]
    /\ UNCHANGED <<buf, offsets, res, sorted, sorts, body,
                   disable_auto_calculate_body_length,
                   disable_auto_calculate_checksum, iter, leftover, group>>

\* messages of a length field with a wrong value, a checksum field and a
\* body field
MaxReuseFields == 1
ReuseFieldPool ==
    {<<to_string(BODY_LENGTH), <<Ch0 + 7>>>>,
     <<to_string(CHECK_SUM), <<Ch0, Ch0, Ch0 + 1>>>>,
     <<to_string(U32(MSG_TYPE)), <<ChX>>>>}
ReuseInputs == {Wire(fs) : fs \in SeqsUpTo(ReuseFieldPool, MaxReuseFields)}

DecodeReuse == \E b \in ReuseInputs : Decode(b)

NextReuse ==
    \/ DecodeReuse
    \/ SetDisableBodyLengthAny
    \/ SetDisableChecksumAny
    \/ FillOut
    \/ EncodeInto
SpecReuse == Init /\ [][NextReuse]_vars

\* C22: whatever the output buffer held and whatever was encoded before on
\* the same Encoder, after encode the output buffer holds what a new Encoder
\* writes into a new buffer for the same message under the same switch
\* values, and the scratch body holds the body of this message only
C22_OutputDependsOnMessageAndSwitchesOnly ==
    ret.op = "encode_into" =>
        \E e \in encode(sorted, buf, offsets,
                        disable_auto_calculate_body_length,
                        disable_auto_calculate_checksum) :
            out = e.out /\ body = e.body

\* an encode into a buffer that held other bytes, on an Encoder whose
\* scratch body held the body of another message
C22_Witness ==
    /\ ret.op = "encode_into"
    /\ ret.val[1] # <<>> /\ ret.val[1] # out
    /\ ret.val[2] # <<>> /\ ret.val[2] # body
    /\ out # <<>>

(***************************************************************************)
(* Inputs of the validators: framed messages with the length and the       *)
(* checksum written right and wrong and the checksum tag written as 10 and *)
(* as 010, and messages with the length or the checksum field missing or   *)
(* out of its place.                                                       *)
(***************************************************************************)
MaxValFields == 1

VersionField == WireField(to_string(BEGIN_STRING), <<ChX>>)

ValBodies ==
    {Concat([k \in 1..n |-> WireField(to_string(U32(MSG_TYPE)), <<ChX>>)]) :
        n \in 0..MaxValFields}

\* the checksum tag as text: plain, and with a leading zero
ChecksumTagTexts == {to_string(CHECK_SUM), <<Ch0>> \o to_string(CHECK_SUM)}

ValFramedInputs ==
    UNION {UNION {{Framed(VersionField, lt, bd) \o WireField(tt, ct) :
                       ct \in ChecksumTexts(compute_checksum(Framed(VersionField, lt, bd))),
                       tt \in ChecksumTagTexts} :
                   lt \in LengthTexts(Len(bd))} :
           bd \in ValBodies}

\* the bytes followed by a checksum field that is right for them
WithChecksum(pre) ==
    pre \o WireField(to_string(CHECK_SUM), Pad3(compute_checksum(pre)))

\* a length field that declares no byte
ZeroLengthField == WireField(to_string(BODY_LENGTH), <<Ch0>>)

\* the length field first and a field with the value 0 second
LengthFirst ==
    ZeroLengthField \o WireField(to_string(U32(MSG_TYPE)), <<Ch0>>)

MisplacedInputs ==
    {<<>>, WithChecksum(<<>>), WithChecksum(ZeroLengthField),
     WithChecksum(LengthFirst)}
    \cup {WithChecksum(VersionField \o bd \o ZeroLengthField) : bd \in ValBodies}
    \cup {WithChecksum(VersionField \o ZeroLengthField) \o bd : bd \in ValBodies}
    \cup {VersionField \o bd : bd \in ValBodies}

DecodeVal == \E b \in ValFramedInputs \cup MisplacedInputs : Decode(b)
FieldInRange == \E i \in 0..(MaxValFields + 3) : FieldAt(i)
FieldPastEnd == \E i \in 0..(MaxValFields + 3) : FieldOutOfRange(i)

NextVal ==
    \/ DecodeVal
    \/ MsgLen
    \/ ValidateBodyLength
    \/ ValidateChecksum
    \/ FieldInRange
    \/ FieldPastEnd
SpecVal == Init /\ [][NextVal]_vars

(***************************************************************************)
(* Claims about the validators, checked under SpecVal                      *)
(***************************************************************************)
\* the offset of the first byte of field i's tag
TagStart(tab, i) == IF i = 0 THEN 0 ELSE tab[i][3] + 1

LengthSecondChecksumLast(tab) ==
    /\ Len(tab) >= 3
    /\ tab[2][1] = BODY_LENGTH
    /\ tab[Len(tab)][1] = CHECK_SUM

\* the bytes strictly between the terminator of the length field and the
\* first byte of the checksum field's tag
BodyByteCount(tab) == TagStart(tab, Len(tab) - 1) - (tab[2][3] + 1)

\* C15: with the length field second and the checksum field last,
\* validate_body_length returns Ok exactly when the declared decimal equals
\* the number of bytes strictly between the length field's terminator and
\* the first byte of the checksum field's tag, and InvalidBodyLength
\* otherwise
C15_BodyLengthExact ==
    ret.op = "validate_body_length" /\ LengthSecondChecksumLast(offsets) =>
        LET declared == parse_body_length(Slice(buf, offsets[2][2], offsets[2][3])) IN
        /\ ret.val \in {"Ok", "InvalidBodyLength"}
        /\ ret.val = "Ok" <=>
              declared.ok /\ declared.val = Usize(BodyByteCount(offsets))

ChecksumLast(tab) == Len(tab) >= 1 /\ tab[Len(tab)][1] = CHECK_SUM

\* C16: with the checksum field last, validate_checksum returns Ok exactly
\* when its value is a decimal in 0..255 equal to the sum modulo 256 of the
\* bytes from offset 0 up to, and excluding, the first byte of the checksum
\* field's tag, and InvalidCheckSum otherwise
C16_ChecksumExact ==
    ret.op = "validate_checksum" /\ ChecksumLast(offsets) =>
        LET n == Len(offsets)
            declared == parse_checksum(Slice(buf, offsets[n][2], offsets[n][3]))
        IN /\ ret.val \in {"Ok", "InvalidCheckSum"}
           /\ ret.val = "Ok" <=>
                 /\ declared.ok
                 /\ declared.val =
                       compute_checksum(Slice(buf, 0, TagStart(offsets, n - 1)))

\* C17: validate_body_length fails with InvalidBodyLength when the message
\* has fewer than 3 fields, or its second field is not the length field, or
\* its last field is not the checksum field; validate_checksum fails with
\* InvalidCheckSum when the message is empty or its last field is not the
\* checksum field; a right field elsewhere in the message changes nothing
C17_PositionalRejection ==
    /\ (ret.op = "validate_body_length" /\ ~LengthSecondChecksumLast(offsets) =>
           ret.val = "InvalidBodyLength")
    /\ (ret.op = "validate_checksum" /\ ~ChecksumLast(offsets) =>
           ret.val = "InvalidCheckSum")

\* validate_body_length rejected a message whose length field comes third
\* and declares the right number of bytes up to the checksum field
C17_Witness ==
    /\ ret.op = "validate_body_length"
    /\ ret.val = "InvalidBodyLength"
    /\ Len(offsets) = 4
    /\ offsets[3][1] = BODY_LENGTH
    /\ offsets[4][1] = CHECK_SUM
    /\ parse_body_length(Slice(buf, offsets[3][2], offsets[3][3])).val
          = Usize(TagStart(offsets, 3) - (offsets[3][3] + 1))
    /\ validate_checksum(buf, offsets) = "Ok"

MaxRoundFields == 1
RoundBodyPool ==
    {WireField(to_string(U32(MSG_TYPE)), <<ChX>>),
     WireField(<<Ch0>> \o to_string(U32(MSG_TYPE)), <<ChX>>),
     WireField(to_string(BEGIN_STRING), VersionText)}
RoundBodies == {Concat(fs) : fs \in SeqsUpTo(RoundBodyPool, MaxRoundFields)}

RoundInputs ==
    UNION {UNION {{Framed(VersionField, lt, bd) \o WireField(to_string(CHECK_SUM), ct) :
                       ct \in ChecksumTexts(compute_checksum(Framed(VersionField, lt, bd)))} :
                   lt \in LengthTexts(Len(bd))} :
           bd \in RoundBodies}

DecodeRound == \E b \in RoundInputs : Decode(b)

NextRound ==
    \/ DecodeRound
    \/ SetDisableBodyLengthAny
    \/ SetDisableChecksumAny
    \/ Encode
SpecRound == Init /\ [][NextRound]_vars

VersionFirst(tab) == Len(tab) >= 1 /\ tab[1][1] = BEGIN_STRING

(***************************************************************************)
(* Claim about the round trip, checked under SpecRound                     *)
(***************************************************************************)
\* C26: with both switches on true, encode of the decode of a message that
\* has the version field first, the length field second and the checksum
\* field last writes the bytes that were decoded, whatever the values of the
\* length and checksum fields
C26_BothSwitchesOffReproducesWire ==
    /\ ret.op = "encode"
    /\ disable_auto_calculate_body_length
    /\ disable_auto_calculate_checksum
    /\ VersionFirst(offsets)
    /\ LengthSecondChecksumLast(offsets)
    => ret.val = buf

(***************************************************************************)
(* Inputs of the group engine: short messages over the count and delimiter *)
(* fields of two schemas, in every order.                                  *)
(***************************************************************************)
ORDERS == GroupSpecOf(FIX42_GROUPS[2])

GroupSpecs == {MISC_FEES, ORDERS}

MaxGrpFields == 2
GrpFieldPool ==
    {<<to_string(MISC_FEES.count_tag), <<Ch0 + 2>>>>,
     <<to_string(MISC_FEES.delimiter_tag), <<ChX>>>>,
     <<to_string(ORDERS.count_tag), <<Ch0 + 1>>>>,
     <<to_string(ORDERS.delimiter_tag), <<ChX>>>>}
GrpInputs == {Wire(fs) : fs \in SeqsUpTo(GrpFieldPool, MaxGrpFields)}

\* count values that declare no instance: empty, 0, and with a non-digit
NoCountTexts == {<<>>, <<Ch0>>, <<ChX>>, <<Ch0 + 1, ChX>>}

\* a count field with such a value in front of delimiter fields, at the
\* top of the message and inside an instance of the other schema
NoCountInputs ==
    {Wire(<<<<to_string(MISC_FEES.count_tag), v>>>>
          \o [k \in 1..n |-> <<to_string(MISC_FEES.delimiter_tag), <<ChX>>>>]) :
        v \in NoCountTexts, n \in 1..(MaxGrpFields - 1)}
    \cup
    {Wire(<<<<to_string(ORDERS.count_tag), <<Ch0 + 1>>>>,
           <<to_string(ORDERS.delimiter_tag), <<ChX>>>>,
           <<to_string(MISC_FEES.count_tag), v>>,
           <<to_string(MISC_FEES.delimiter_tag), <<ChX>>>>>>) :
        v \in NoCountTexts}

\* nested groups: two instances of one schema, each with or without a
\* group of the other schema inside, whose count may differ from the
\* number of its instances
MaxChildren == 1

ChildBlocks ==
    {<<>>} \cup
    {<<<<to_string(ORDERS.count_tag), <<Ch0 + c>>>>>>
      \o [k \in 1..n |-> <<to_string(ORDERS.delimiter_tag), <<ChX>>>>] :
        c \in 1..2, n \in 0..MaxChildren}

ParentInstances ==
    {<<<<to_string(MISC_FEES.delimiter_tag), <<ChX>>>>>> \o cb : cb \in ChildBlocks}

NestedInputs ==
    {Wire(<<<<to_string(MISC_FEES.count_tag), <<Ch0 + 2>>>>>> \o p1 \o p2) :
        p1 \in ParentInstances, p2 \in ParentInstances}

DecodeGrp == \E b \in GrpInputs \cup NoCountInputs \cup NestedInputs : Decode(b)
GroupsAny == \E spec \in GroupSpecs : Groups(spec)
GroupGroupsAny == \E spec \in GroupSpecs : GroupGroups(spec)

NextGrp ==
    \/ DecodeGrp
    \/ GroupsAny
    \/ GroupNext
    \/ GroupGroupsAny
SpecGrp == Init /\ [][NextGrp]_vars

(***************************************************************************)
(* Claims about group instances, checked under SpecGrp                     *)
(***************************************************************************)
\* every Group a new iterator yields until it returns None, in order
RECURSIVE Drain(_, _)
Drain(tab, it) ==
    LET r == next(tab, it) IN
    IF ~r.group.some THEN <<>> ELSE <<r.group>> \o Drain(tab, r.iter)

\* the entries of lo..hi (hi excluded) that carry the tag
EntriesWithTag(tab, lo, hi, tag) == {j \in lo..(hi - 1) : tab[j + 1][1] = tag}

\* the candidate region lo..hi holds exactly the declared number of
\* instances, each begun by the delimiter tag
WellFormedInstances(tab, it) ==
    /\ it.lo < it.hi
    /\ tab[it.lo + 1][1] = it.delimiter_tag
    /\ it.count = Usize(Cardinality(EntriesWithTag(tab, it.lo, it.hi, it.delimiter_tag)))

\* the k-th part of lo..hi when it is cut in front of every delimiter entry
DelimitedPart(tab, it, k) ==
    LET D == EntriesWithTag(tab, it.lo, it.hi, it.delimiter_tag)
        from == CHOOSE d \in D : Cardinality({e \in D : e < d}) = k - 1
        later == {e \in D : e > from}
    IN [some |-> TRUE, lo |-> from,
        hi |-> IF later = {} THEN it.hi
               ELSE CHOOSE e \in later : \A f \in later : e <= f]

ReceiverLo(g) == IF g.some THEN g.lo ELSE 0
ReceiverHi(tab, g) == IF g.some THEN g.hi ELSE Len(tab)

\* a value that is the decimal 0
IsZeroDecimal(v) == v # <<>> /\ \A i \in 1..Len(v) : v[i] = Ch0

\* a value that is no decimal: empty or with a byte that is no digit
IsNoDecimal(v) == v = <<>> \/ \E i \in 1..Len(v) : ~IsDigit(v[i])

\* the count tag is absent from the receiver's entries, or the first entry
\* with it holds 0 or no decimal
DeclaresNoInstance(b, tab, g, spec) ==
    LET C == EntriesWithTag(tab, ReceiverLo(g), ReceiverHi(tab, g), spec.count_tag) IN
    \/ C = {}
    \/ LET c == CHOOSE j \in C : \A k \in C : j <= k
           v == Slice(b, tab[c + 1][2], tab[c + 1][3])
       IN IsZeroDecimal(v) \/ IsNoDecimal(v)

\* C12: groups(spec) on a Message or a Group gives an iterator that yields
\* no instance when the count tag is absent from the receiver's entries, or
\* its value is the decimal 0, or its value is no decimal
C12_NoInstanceWithoutValidCount ==
    [][/\ (ret'.op = "groups" /\ DeclaresNoInstance(buf, offsets, group', ret'.val) =>
              /\ iter'.live
              /\ Drain(offsets, iter') = <<>>)
       /\ (/\ ret.op = "groups"
           /\ DeclaresNoInstance(buf, offsets, group, ret.val)
           /\ ret'.op = "next"
           => ~ret'.val.some /\ iter' = iter)]_vars

\* next returned None although delimiter entries follow a count field whose
\* value has a non-digit byte
C12_Witness ==
    /\ ret.op = "next"
    /\ ~ret.val.some
    /\ iter.live
    /\ 0 < iter.lo
    /\ iter.lo < iter.hi
    /\ offsets[iter.lo + 1][1] = iter.delimiter_tag
    /\ IsNoDecimal(Slice(buf, offsets[iter.lo][2], offsets[iter.lo][3]))
    /\ Slice(buf, offsets[iter.lo][2], offsets[iter.lo][3]) # <<>>

\* C13: every instance a nested iteration yields lies inside the parent
\* instance groups() was called on, and what the nested iterator has left
\* never reaches past the parent's last entry into a sibling
C13_NestedIsolation ==
    group.some =>
        /\ (ret.op = "next" /\ ret.val.some =>
               /\ group.lo <= ret.val.lo
               /\ ret.val.lo < ret.val.hi
               /\ ret.val.hi <= group.hi)
        /\ (iter.lo < iter.hi => group.lo < iter.lo /\ iter.hi <= group.hi)

\* a nested iteration whose count asks for more instances than the parent
\* holds stopped at the parent's end although a later sibling holds an
\* entry with the nested delimiter tag
C13_Witness ==
    /\ group.some
    /\ ret.op = "next"
    /\ ret.val.some
    /\ ret.val.hi = group.hi
    /\ iter.lo = iter.hi
    /\ WLess(Usize(iter.emitted), iter.count)
    /\ EntriesWithTag(offsets, group.hi, Len(offsets), iter.delimiter_tag) # {}

TagAt(tab, i) == tab[i + 1][1]

\* C10: every Group instance yielded begins with an entry whose tag is the
\* delimiter tag, holds no other entry with that tag, and ends right before
\* the next entry with that tag or at the end of the candidate region
C10_InstanceBeginsWithDelimiter ==
    ret.op = "next" /\ ret.val.some =>
        /\ ret.val.lo < ret.val.hi
        /\ TagAt(offsets, ret.val.lo) = iter.delimiter_tag
        /\ \A j \in (ret.val.lo + 1)..(ret.val.hi - 1) :
              TagAt(offsets, j) # iter.delimiter_tag
        /\ \/ ret.val.hi = iter.hi
           \/ TagAt(offsets, ret.val.hi) = iter.delimiter_tag

(***************************************************************************)
(* Iteration with size hints, checked under SpecIter                       *)
(***************************************************************************)
DecodeIter == \E b \in GrpInputs \cup NestedInputs : Decode(b)

NextIter ==
    \/ DecodeIter
    \/ GroupsAny
    \/ GroupNext
    \/ GroupGroupsAny
    \/ SizeHint
SpecIter == Init /\ [][NextIter]_vars

\* C25: at every point of an iteration size_hint() is (k, Some(k)) with k
\* the number of instances the following next() calls still yield
C25_SizeHintExact ==
    ret.op = "size_hint" =>
        LET k == Usize(Len(Drain(offsets, iter))) IN
        ret.val = [lower |-> k, upper |-> k]

\* the candidate region of the iterator made last: the message, or the
\* parent instance for Group::groups
RegionLo(g) == IF g.some THEN g.lo ELSE 0
RegionHi(tab, g) == IF g.some THEN g.hi ELSE Len(tab)

\* C27: the instances one iterator yields are consecutive sub-ranges of its
\* candidate region in wire order that do not overlap: the first begins at
\* the entry right after the first entry with the count tag, each later one
\* begins where the one before it ended, and no entry between the first and
\* the last is skipped or yielded twice
C27_InstancesTileTheRegion ==
    [][/\ (ret'.op = "groups" =>
              LET gs == Drain(offsets, iter')
                  lo0 == RegionLo(group')
                  hi0 == RegionHi(offsets, group')
              IN gs # <<>> =>
                  /\ gs[1].lo > lo0
                  /\ offsets[gs[1].lo][1] = ret'.val.count_tag
                  /\ EntriesWithTag(offsets, lo0, gs[1].lo - 1, ret'.val.count_tag) = {}
                  /\ \A k \in 1..Len(gs) :
                         /\ gs[k].lo < gs[k].hi
                         /\ gs[k].hi <= hi0
                  /\ \A k \in 1..(Len(gs) - 1) : gs[k + 1].lo = gs[k].hi
                  /\ \A j \in gs[1].lo..(gs[Len(gs)].hi - 1) :
                         Cardinality({k \in 1..Len(gs) :
                                         gs[k].lo <= j /\ j < gs[k].hi}) = 1)
       /\ (ret'.op = "next" /\ ret'.val.some =>
              /\ ret'.val.lo = iter.lo
              /\ iter'.lo = ret'.val.hi
              /\ Drain(offsets, iter) = <<ret'.val>> \o Drain(offsets, iter'))]_vars

\* the second instance was yielded, it began where the first one ended, and
\* the first one had more than one entry
C27_Witness ==
    /\ ret.op = "next"
    /\ ret.val.some
    /\ iter.emitted = 2
    /\ ret.val.lo >= 3
    /\ offsets[ret.val.lo + 1][1] = iter.delimiter_tag
    /\ offsets[ret.val.lo][1] # iter.delimiter_tag

\* the iterator yields nothing more
Exhausted(tab, it) == ~next(tab, it).group.some

\* C28: a call of next that returns an instance returns one that is not
\* empty, leaves a shorter remaining range and keeps emitted <= count; an
\* iterator yields at most min(count, length of its range) instances; once
\* next returned None, every later call on the iterator returns None
C28_FiniteAndFused ==
    [][/\ (ret'.op = "next" /\ ret'.val.some =>
              /\ ret'.val.lo < ret'.val.hi
              /\ iter'.hi - iter'.lo < iter.hi - iter.lo
              /\ iter'.hi - iter'.lo >= 0
              /\ ~WLess(iter'.count, Usize(iter'.emitted)))
       /\ (ret'.op = "groups" =>
              LET n == Len(Drain(offsets, iter')) IN
              /\ ~WLess(iter'.count, Usize(n))
              /\ n <= iter'.hi - iter'.lo)
       /\ (ret'.op = "next" /\ ~ret'.val.some => Exhausted(offsets, iter'))
       /\ (iter.live /\ Exhausted(offsets, iter) /\ ret'.op \in {"next", "size_hint"} =>
              /\ Exhausted(offsets, iter')
              /\ (ret'.op = "next" => ~ret'.val.some))]_vars

\* next returned None with entries left in the range, after an instance
C28_Witness ==
    /\ ret.op = "next"
    /\ ~ret.val.some
    /\ iter.emitted >= 1
    /\ iter.lo < iter.hi

(***************************************************************************)
(* Inputs of all_groups: a version field with the value FIX.4.4 and with   *)
(* another value, the count field of a schema of the legacy array and of   *)
(* one that only the superset array has, with the counts 0, 1, a text that *)
(* is no number and the least number that does not fit in a usize.         *)
(***************************************************************************)
MaxDictFields == 2

NO_PARTY_IDS == FIX44_GROUPS[Len(FIX42_GROUPS) + 1][1]

\* usize::MAX + 1 in decimal
UsizeOverflowText == to_string(<<1>> \o Usize(0))

DictFieldPool ==
    {<<to_string(BEGIN_STRING), VersionText>>,
     <<to_string(BEGIN_STRING), <<ChX>>>>,
     <<to_string(U32(NO_MISC_FEES)), <<Ch0>>>>,
     <<to_string(U32(NO_MISC_FEES)), <<Ch0 + 1>>>>,
     <<to_string(U32(NO_MISC_FEES)), <<ChX>>>>,
     <<to_string(U32(NO_PARTY_IDS)), <<Ch0 + 1>>>>,
     <<to_string(U32(NO_PARTY_IDS)), UsizeOverflowText>>}
DictInputs == {Wire(fs) : fs \in SeqsUpTo(DictFieldPool, MaxDictFields)}

DecodeDict == \E b \in DictInputs : Decode(b)

NextDict ==
    \/ DecodeDict
    \/ AllGroups
SpecDict == Init /\ [][NextDict]_vars

(***************************************************************************)
(* Claims about all_groups, checked under SpecDict                         *)
(***************************************************************************)
\* the array that goes with the message's version value
DictionaryOf(b, tab) ==
    LET v == OwnValue(b, tab, BEGIN_STRING) IN
    IF v.some /\ v.value = VersionText THEN FIX44_GROUPS ELSE FIX42_GROUPS

\* a decimal number other than zero
IsNonzeroDecimal(v) ==
    /\ v # <<>>
    /\ AllDigits(v)
    /\ \E i \in 1..Len(v) : v[i] # Ch0

\* the schemas of the array whose count field the message has with a value
\* other than zero, in the order of the array
SchemasWithCount(b, tab, specs) ==
    LET present(pair) ==
            LET c == OwnValue(b, tab, U32(pair[1])) IN
            c.some /\ IsNonzeroDecimal(c.value)
        chosen == SelectSeq(specs, present)
    IN [k \in 1..Len(chosen) |-> GroupSpecOf(chosen[k])]

\* C23: all_groups takes the superset array when the message's version value
\* is FIX.4.4 and the legacy array otherwise, also without a version field,
\* and yields, in the order of the array, one pair of schema and instances
\* for each schema whose count field the message has with a nonzero value,
\* and no other pair
C23_AllGroupsByDictionary ==
    ret.op = "all_groups" =>
        LET want == SchemasWithCount(buf, offsets, DictionaryOf(buf, offsets)) IN
        /\ Len(ret.val) = Len(want)
        /\ \A k \in 1..Len(want) :
            /\ ret.val[k].spec = want[k]
            /\ ret.val[k].iter = groups(buf, offsets, 0, Len(offsets), want[k])

(***************************************************************************)
(* Inputs of the decoder: every short byte string over a small alphabet,   *)
(* and every short concatenation of well-formed fields.                    *)
(***************************************************************************)
MaxRawLen == 4
RawAlphabet == {FIELD_SEPARATOR, FIELD_KEY_VALUE_SEPARATOR, Ch0 + 1}

RawInputs == SeqsUpTo(RawAlphabet, MaxRawLen)

\* tag texts and value texts of well-formed fields
U32MaxText == <<52, 50, 57, 52, 57, 54, 55, 50, 57, 53>>
WireTagTexts == {<<Ch0 + 1>>, <<Ch0, Ch0 + 7>>, U32MaxText}
WireValTexts == {<<>>, <<ChX, FIELD_KEY_VALUE_SEPARATOR, Ch0 + 1>>}
WireFieldPool == {<<t, v>> : t \in WireTagTexts, v \in WireValTexts}
MaxWireFields == 2

WireFieldLists == SeqsUpTo(WireFieldPool, MaxWireFields)
WireInputs == {Wire(fs) : fs \in WireFieldLists}

(***************************************************************************)
(* Properties of the decoder                                               *)
(***************************************************************************)
\* the table a concatenation of well-formed fields must decode to: entry i
\* has the tag of field i and the offsets of its value; at is the offset of
\* the first byte of the first field of fs
RECURSIVE ExpectedTable(_, _)
ExpectedTable(fs, at) ==
    IF fs = <<>> THEN <<>>
    ELSE LET t == fs[1][1]
             v == fs[1][2]
             start == at + Len(t) + 1
         IN <<<<parse_tag(t).tag, start, start + Len(v)>>>>
            \o ExpectedTable(Tail(fs), start + Len(v) + 1)

\* the value bytes of entry i of the table
ValueOf(b, tab, i) == Slice(b, tab[i][2], tab[i][3])

RECURSIVE Unfinished(_, _)
Unfinished(b, pos) ==
    IF pos >= Len(b) THEN None
    ELSE LET e == memchr(FIELD_KEY_VALUE_SEPARATOR, b, pos) IN
         IF e = None THEN pos
         ELSE LET s == memchr(FIELD_SEPARATOR, b, e + 1) IN
              IF s = None THEN pos ELSE Unfinished(b, s + 1)

MissingDelimiter(b) == Unfinished(b, 0) # None

\* the bytes of a field before its '=', or all of them when it has none
TagPart(b, pos) ==
    LET e == memchr(FIELD_KEY_VALUE_SEPARATOR, b, pos) IN
    IF e = None THEN Slice(b, pos, Len(b)) ELSE Slice(b, pos, e)

IsValidTagText(bs) ==
    /\ bs # <<>>
    /\ AllDigits(bs)
    /\ ParseChecked(U32(0), bs).ok

\* every field that has its '=' has a valid tag before it
RECURSIVE TagsBeforeSeparatorsValid(_, _)
TagsBeforeSeparatorsValid(b, pos) ==
    IF pos >= Len(b) THEN TRUE
    ELSE LET e == memchr(FIELD_KEY_VALUE_SEPARATOR, b, pos) IN
         IF e = None THEN TRUE
         ELSE /\ IsValidTagText(Slice(b, pos, e))
              /\ LET s == memchr(FIELD_SEPARATOR, b, e + 1) IN
                 IF s = None THEN TRUE
                 ELSE TagsBeforeSeparatorsValid(b, s + 1)

\* C4 as stated: every buffer in which some field is missing its '=' or its
\* 0x01 before the end of the buffer fails with IncompleteMessage.
C4_MissingDelimiterIsIncomplete ==
    (ret.op = "decode" /\ MissingDelimiter(buf)) => res = "IncompleteMessage"

\* C4 amended: a buffer in which some field is missing its '=' or its 0x01,
\* and in which every tag that is followed by its '=' is a valid tag, fails
\* with IncompleteMessage (an invalid tag met first is reported as InvalidTag).
C4_MissingDelimiterValidTagsIsIncomplete ==
    (ret.op = "decode" /\ MissingDelimiter(buf)
        /\ TagsBeforeSeparatorsValid(buf, 0)) => res = "IncompleteMessage"

C4_Witness ==
    /\ ret.op = "decode"
    /\ MissingDelimiter(buf)
    /\ Unfinished(buf, 0) > 0
    /\ TagsBeforeSeparatorsValid(buf, 0)
    /\ res = "IncompleteMessage"

\* the continuations a caller may buffer after an incomplete read
MaxSuffixLen == 2
Suffixes == SeqsUpTo(RawAlphabet, MaxSuffixLen)

Recoverable(b) == \E s \in Suffixes : decode(<<>>, b \o s).res = "ok"

C7_ReuseEqualsFresh ==
    ret.op = "decode" =>
        LET fresh == DecodeLoop(<<>>, buf, 0) IN
        /\ res = fresh.res
        /\ res = "ok" => offsets = fresh.offsets

C7_Witness ==
    /\ ret.op = "decode"
    /\ leftover
    /\ res = "ok"
    /\ Len(offsets) = 1
(***************************************************************************)
(* Inputs at the ends of the tag range: one field whose tag text is the    *)
(* decimal form of a 64-bit number near 0, near each limb boundary and on  *)
(* both sides of 2^32, with and without leading zeros.                     *)
(***************************************************************************)
MaxTagDelta == 2
MaxTagPad == 1

TagEndLimbs ==
    (0..MaxTagDelta) \cup {LimbBase - 1 - k : k \in 0..MaxTagDelta}
TagValues ==
    {<<a, b, c, d>> : a \in {0, 1}, b \in {0, 1},
                      c \in {0, 1, LimbBase - 1}, d \in TagEndLimbs}

Zeros(p) == [k \in 1..p |-> Ch0]

TagInput(w, p) == WireField(Zeros(p) \o to_string(w), <<ChX>>)
TagInputs == {TagInput(w, p) : w \in TagValues, p \in 0..MaxTagPad}

DecodeTag == \E b \in TagInputs : Decode(b)

NextTag == DecodeTag
SpecTag == Init /\ [][NextTag]_vars

\* the number is at most 4294967295
FitsU32(w) == WIsZero(SubSeq(w, 1, Len(w) - U32Limbs))

\* C24: a buffer of one field whose tag digits denote v decodes to one entry
\* with the tag v when v is at most 4294967295, and fails with InvalidTag
\* when v is 4294967296 or more
C24_TagBoundary ==
    ret.op = "decode" =>
        \A w \in TagValues, p \in 0..MaxTagPad :
            buf = TagInput(w, p) =>
                IF FitsU32(w)
                THEN /\ res = "ok"
                     /\ Len(offsets) = 1
                     /\ offsets[1][1] = SubSeq(w, Len(w) - U32Limbs + 1, Len(w))
                     /\ Slice(buf, offsets[1][2], offsets[1][3]) = <<ChX>>
                ELSE res = "InvalidTag"

\* the tag 4294967295 was decoded
C24_Witness ==
    /\ ret.op = "decode"
    /\ res = "ok"
    /\ buf = TagInput(<<0, 0, LimbBase - 1, LimbBase - 1>>, 0)
    /\ buf = WireField(U32MaxText, <<ChX>>)
    /\ offsets[1][1] = <<LimbBase - 1, LimbBase - 1>>

DecodeRaw == \E b \in RawInputs : Decode(b)
DecodeWire == \E b \in WireInputs : Decode(b)

NextDecode == DecodeRaw \/ DecodeWire
SpecDecode == Init /\ [][NextDecode]_vars

(***************************************************************************)
(* A stream that grows: the caller decodes what it has buffered, appends   *)
(* the bytes that arrive and decodes the longer buffer from its first      *)
(* byte. The buffers start short, or with a tag text one above u32::MAX.   *)
(***************************************************************************)
MaxStartLen == 2
MaxGrowLen == 2
MaxStreamLen == 4

StreamAlphabet == RawAlphabet \cup {ChX}
OverflowTagText == to_string(<<1>> \o U32(0))
StreamStarts ==
    {pre \o x : pre \in {<<>>, OverflowTagText},
                x \in SeqsUpTo(StreamAlphabet, MaxStartLen)}
GrowPieces == SeqsUpTo(StreamAlphabet, MaxGrowLen) \ {<<>>}

IsPrefix(a, b) == Len(a) <= Len(b) /\ SubSeq(b, 1, Len(a)) = a

\* the bytes of the buffer after the long tag text it began with, if any
Grown(b) ==
    IF IsPrefix(OverflowTagText, b) THEN Len(b) - Len(OverflowTagText) ELSE Len(b)

DecodeStart == \E b \in StreamStarts : Decode(b)

\* more bytes arrived: decode of the buffer followed by them
Grow ==
    /\ ret.op = "decode"
    /\ \E s \in GrowPieces :
        /\ Grown(buf) + Len(s) <= MaxStreamLen
        /\ Decode(buf \o s)

NextStream == DecodeStart \/ Grow
SpecStream == Init /\ [][NextStream]_vars

(***************************************************************************)
(* Claim about the growing stream, checked under SpecStream                *)
(***************************************************************************)
\* C30: when decode of a buffer failed with InvalidTag, decode of that
\* buffer followed by any further bytes fails with InvalidTag as well
C30_InvalidTagIsStable ==
    [][(/\ ret.op = "decode"
        /\ res = "InvalidTag"
        /\ ret'.op = "decode"
        /\ IsPrefix(buf, buf')) => res' = "InvalidTag"]_vars

\* the tag text 4294967296 got its '=', and the buffer grew to a whole
\* field and the start of a second one
C30_Witness ==
    /\ ret.op = "decode"
    /\ res = "InvalidTag"
    /\ IsPrefix(OverflowTagText \o <<FIELD_KEY_VALUE_SEPARATOR>>, buf)
    /\ Len(buf) = Len(OverflowTagText) + MaxStartLen + 2
    /\ buf[Len(buf) - 1] = FIELD_SEPARATOR
    /\ buf[Len(buf)] = Ch0 + 1

====
